---------------------------- MODULE Spec2Model ----------------------------
(***************************************************************************)
(* A model of auth_token.py (MeshCore auth token shim).                    *)
(*                                                                         *)
(* Text is modelled at two grains.  Tokens, key material and base64 text   *)
(* are sequences of one-character strings; exception messages and the      *)
(* stderr of the external tool are sequences of words (punctuation is a    *)
(* word of its own), so that Python's `"..." in str(e)` is containment of  *)
(* a contiguous run of words.  Bytes are integers 0..255.                  *)
(*                                                                         *)
(* The external meshcore-decoder executable is the environment: every run  *)
(* of it is a nondeterministic choice among the outcomes subprocess.run    *)
(* can produce (timeout, missing executable, exit code + stdout + stderr). *)
(***************************************************************************)
EXTENDS Integers, Sequences, FiniteSets, TLC

VARIABLES
    op,     \* the operation that ran last
    inp,    \* its arguments
    env,    \* what the outside world answered (process outcome, file system)
    loc,    \* the locals of the call worth observing
    res     \* its outcome: [ok, val, msg]

vars == <<op, inp, env, loc, res>>

(***************************************************************************)
(* Bounds of the model                                                     *)
(***************************************************************************)
MaxTokLen == 6      \* longest token drawn from the raw token alphabet
MaxPayloadLen == 4  \* longest payload part of an assembled three-part token
MaxBytes == 3       \* longest byte string given to base64url_encode
MaxOutLen == 4      \* longest stdout of the signing tool
KeySlack == 2       \* key texts have KeyHexLen +/- KeySlack characters

KeyHexLen == 128    \* 64 bytes = 128 hex chars
DefaultExpiry == 3600

(***************************************************************************)
(* Generic sequence helpers                                                *)
(***************************************************************************)
SeqsUpTo(S, n) == UNION {[1..k -> S] : k \in 0..n}

Rep(c, n) == [i \in 1..n |-> c]

\* Python: pat in s  (contiguous run)
Contains(s, pat) ==
    \E i \in 0..(Len(s) - Len(pat)) :
        \A j \in 1..Len(pat) : s[i + j] = pat[j]

StartsWith(s, pat) ==
    /\ Len(s) >= Len(pat)
    /\ \A j \in 1..Len(pat) : s[j] = pat[j]

\* Python: s.count(c) for a one-character c
CountChar(s, c) == Cardinality({i \in 1..Len(s) : s[i] = c})

\* Python: s.split(sep) for a one-character sep; always at least one part
SplitOn(s, sep) ==
    LET F[i \in 0..Len(s)] ==
            IF i = 0 THEN << <<>> >>
            ELSE LET prev == F[i - 1]
                 IN  IF s[i] = sep
                     THEN Append(prev, <<>>)
                     ELSE [prev EXCEPT ![Len(prev)] = Append(@, s[i])]
    IN  F[Len(s)]

Whitespace == {" ", "\n", "\t", "\r"}

RECURSIVE LStrip(_)
LStrip(s) ==
    IF Len(s) > 0 /\ s[1] \in Whitespace THEN LStrip(Tail(s)) ELSE s

RECURSIVE RStrip(_)
RStrip(s) ==
    IF Len(s) > 0 /\ s[Len(s)] \in Whitespace
    THEN RStrip(SubSeq(s, 1, Len(s) - 1))
    ELSE s

\* Python: s.strip()
Strip(s) == RStrip(LStrip(s))

IsNotWs(c) == c \notin Whitespace

\* Python: ''.join(s.split())
RemoveWhitespace(s) == SelectSeq(s, IsNotWs)

(***************************************************************************)
(* Outcomes of a call: a returned value or a raised Exception(msg)         *)
(***************************************************************************)
Return(v) == [ok |-> TRUE, val |-> v, exc |-> "", msg |-> <<>>]

\* exc is the Python exception class, msg is str(e)
RaiseAs(cls, m) == [ok |-> FALSE, val |-> <<>>, exc |-> cls, msg |-> m]

Raise(m) == RaiseAs("Exception", m)

(***************************************************************************)
(* base64 (RFC 4648 section 5 alphabet)                                     *)
(***************************************************************************)
B64Chars ==
    << "A","B","C","D","E","F","G","H","I","J","K","L","M","N","O","P",
       "Q","R","S","T","U","V","W","X","Y","Z","a","b","c","d","e","f",
       "g","h","i","j","k","l","m","n","o","p","q","r","s","t","u","v",
       "w","x","y","z","0","1","2","3","4","5","6","7","8","9","-","_" >>

\* the 6-bit value of a character, 64 for a character outside the alphabet
\* (urlsafe_b64decode maps - and _ onto + and /, which stay valid themselves)
B64Value(c) ==
    IF c = "+" THEN 62
    ELSE IF c = "/" THEN 63
    ELSE IF \E i \in 1..64 : B64Chars[i] = c
         THEN (CHOOSE i \in 1..64 : B64Chars[i] = c) - 1
         ELSE 64

\* base64.urlsafe_b64encode: three bytes to four characters, '=' padded
RECURSIVE B64EncodePadded(_)
B64EncodePadded(data) ==
    IF Len(data) = 0 THEN <<>>
    ELSE IF Len(data) = 1 THEN
        << B64Chars[(data[1] \div 4) + 1],
           B64Chars[((data[1] % 4) * 16) + 1], "=", "=" >>
    ELSE IF Len(data) = 2 THEN
        << B64Chars[(data[1] \div 4) + 1],
           B64Chars[((data[1] % 4) * 16 + (data[2] \div 16)) + 1],
           B64Chars[((data[2] % 16) * 4) + 1], "=" >>
    ELSE
        << B64Chars[(data[1] \div 4) + 1],
           B64Chars[((data[1] % 4) * 16 + (data[2] \div 16)) + 1],
           B64Chars[((data[2] % 16) * 4 + (data[3] \div 64)) + 1],
           B64Chars[(data[3] % 64) + 1] >>
        \o B64EncodePadded(SubSeq(data, 4, Len(data)))

\* bytes.rstrip(b'=')
RECURSIVE RStripPad(_)
RStripPad(s) ==
    IF Len(s) > 0 /\ s[Len(s)] = "="
    THEN RStripPad(SubSeq(s, 1, Len(s) - 1))
    ELSE s

base64url_encode(data) == RStripPad(B64EncodePadded(data))

(***************************************************************************)
(* base64.urlsafe_b64decode (binascii.a2b_base64, not strict): characters  *)
(* outside the alphabet are skipped, decoding stops at the padding that    *)
(* completes a quad, and data that ends inside a quad is an error.         *)
(* st = [quad, left, pads, out, done]                                      *)
(***************************************************************************)
B64Step(st, c) ==
    IF st.done THEN st
    ELSE IF c = "=" THEN
        IF st.quad >= 2 /\ st.quad + st.pads + 1 >= 4
        THEN [st EXCEPT !.done = TRUE]
        ELSE IF st.quad >= 2 THEN [st EXCEPT !.pads = @ + 1] ELSE st
    ELSE IF B64Value(c) = 64 THEN st
    ELSE LET v == B64Value(c)
         IN  CASE st.quad = 0 ->
                    [st EXCEPT !.quad = 1, !.left = v, !.pads = 0]
               [] st.quad = 1 ->
                    [st EXCEPT !.quad = 2, !.left = v % 16, !.pads = 0,
                               !.out = Append(@, st.left * 4 + (v \div 16))]
               [] st.quad = 2 ->
                    [st EXCEPT !.quad = 3, !.left = v % 4, !.pads = 0,
                               !.out = Append(@, st.left * 16 + (v \div 4))]
               [] st.quad = 3 ->
                    [st EXCEPT !.quad = 0, !.left = 0, !.pads = 0,
                               !.out = Append(@, st.left * 64 + v)]

B64Scan(s) ==
    LET F[i \in 0..Len(s)] ==
            IF i = 0
            THEN [quad |-> 0, left |-> 0, pads |-> 0, out |-> <<>>, done |-> FALSE]
            ELSE B64Step(F[i - 1], s[i])
    IN  F[Len(s)]

\* the data characters of s: those of the alphabet
IsB64Data(c) == B64Value(c) # 64

urlsafe_b64decode(s) ==
    LET st == B64Scan(s)
    IN  IF st.done \/ st.quad = 0 THEN Return(st.out)
        ELSE IF st.quad = 1
        THEN RaiseAs("binascii.Error", <<"Invalid", "base64-encoded", "string", ":", "number", "of",
                     "data", "characters", ToString(Len(SelectSeq(s, IsB64Data))),
                     "cannot", "be", "1", "more", "than", "a", "multiple", "of", "4">>)
        ELSE RaiseAs("binascii.Error", <<"Incorrect", "padding">>)

(***************************************************************************)
(* bytes.decode('utf-8'): well-formedness of a byte string (Unicode 3.9,   *)
(* table 3-7).  Only the verdict is modelled; see json_loads.              *)
(***************************************************************************)
IsCont(b) == b >= 128 /\ b <= 191

RECURSIVE Utf8Valid(_)
Utf8Valid(b) ==
    IF Len(b) = 0 THEN TRUE
    ELSE LET n == Len(b)
             rest(k) == SubSeq(b, k + 1, n)
         IN  IF b[1] <= 127 THEN Utf8Valid(rest(1))
             ELSE IF b[1] >= 194 /\ b[1] <= 223
                  THEN n >= 2 /\ IsCont(b[2]) /\ Utf8Valid(rest(2))
             ELSE IF b[1] >= 224 /\ b[1] <= 239
                  THEN /\ n >= 3
                       /\ IsCont(b[2])
                       /\ IsCont(b[3])
                       /\ (b[1] = 224 => b[2] >= 160)
                       /\ (b[1] = 237 => b[2] <= 159)
                       /\ Utf8Valid(rest(3))
             ELSE IF b[1] >= 240 /\ b[1] <= 244
                  THEN /\ n >= 4
                       /\ IsCont(b[2])
                       /\ IsCont(b[3])
                       /\ IsCont(b[4])
                       /\ (b[1] = 240 => b[2] >= 144)
                       /\ (b[1] = 244 => b[2] <= 143)
                       /\ Utf8Valid(rest(4))
             ELSE FALSE

(***************************************************************************)
(* JSON values: [t |-> "null"], [t |-> "bool", b], [t |-> "num", n],       *)
(* [t |-> "str", s] (s a sequence of words), [t |-> "list", l],            *)
(* [t |-> "obj", o] (o a function from member names to values).            *)
(***************************************************************************)
JNull == [t |-> "null"]

JBool(b) == [t |-> "bool", b |-> b]

JNum(n) == [t |-> "num", n |-> n]

JStr(s) == [t |-> "str", s |-> s]

JList(l) == [t |-> "list", l |-> l]

JObj(o) == [t |-> "obj", o |-> o]

\* Python truth value of a decoded JSON value
Truthy(v) ==
    CASE v.t = "null" -> FALSE
      [] v.t = "bool" -> v.b
      [] v.t = "num"  -> v.n # 0
      [] v.t = "str"  -> v.s # <<>>
      [] v.t = "list" -> v.l # <<>>
      [] v.t = "obj"  -> DOMAIN v.o # {}

(***************************************************************************)
(* json.loads(payload_bytes.decode('utf-8')), on the fragment of JSON the  *)
(* bounded payloads can spell: an integer or an empty object, with JSON    *)
(* whitespace around it.  Any other text of the fragment's bytes is a      *)
(* JSONDecodeError; ill-formed UTF-8 is a UnicodeDecodeError before that.  *)
(* Bytes are code points here: a well-formed non-ASCII text is no JSON     *)
(* value outside a string, so it is a JSONDecodeError as well.             *)
(***************************************************************************)
JsonWs == {32, 9, 10, 13}

JsonStrip(b) ==
    LET keep == {i \in 1..Len(b) : b[i] \notin JsonWs}
    IN  IF keep = {} THEN <<>>
        ELSE LET lo == CHOOSE i \in keep : \A j \in keep : i <= j
                 hi == CHOOSE i \in keep : \A j \in keep : i >= j
             IN  SubSeq(b, lo, hi)

IsJsonInt(b) ==
    /\ Len(b) >= 1
    /\ \A i \in 1..Len(b) : b[i] >= 48 /\ b[i] <= 57
    /\ (Len(b) > 1 => b[1] # 48)

RECURSIVE DigitsValue(_)
DigitsValue(b) ==
    IF Len(b) = 0 THEN 0
    ELSE 10 * DigitsValue(SubSeq(b, 1, Len(b) - 1)) + (b[Len(b)] - 48)

JsonError == RaiseAs("JSONDecodeError", <<"Expecting", "value">>)

json_loads(bytes) ==
    IF ~Utf8Valid(bytes)
    THEN RaiseAs("UnicodeDecodeError",
                 <<"'utf-8'", "codec", "can't", "decode", "byte">>)
    ELSE LET t == JsonStrip(bytes)
             n == Len(t)
         IN  IF n = 0 THEN JsonError
             ELSE IF t[1] = 123
             THEN IF n >= 2 /\ t[n] = 125
                     /\ \A i \in 2..(n - 1) : t[i] \in JsonWs
                  THEN Return(JObj(<<>>))
                  ELSE JsonError
             ELSE IF t[1] = 45
             THEN IF IsJsonInt(SubSeq(t, 2, n))
                  THEN Return(JNum(0 - DigitsValue(SubSeq(t, 2, n))))
                  ELSE JsonError
             ELSE IF IsJsonInt(t) THEN Return(JNum(DigitsValue(t)))
             ELSE JsonError

(***************************************************************************)
(* decode_token_payload                                                    *)
(***************************************************************************)
\* lines 146-148: re-add the padding base64url_encode stripped
Padding(payload_b64) == 4 - (Len(payload_b64) % 4)

\* a variant that pads whenever it computed a padding, 4 included
AddPaddingAlways(payload_b64) == payload_b64 \o Rep("=", Padding(payload_b64))

AddPadding(payload_b64) ==
    IF Padding(payload_b64) # 4
    THEN payload_b64 \o Rep("=", Padding(payload_b64))
    ELSE payload_b64

\* lines 153-158: the except clauses of decode_token_payload
DecodeHandlers(e) ==
    IF e.ok THEN e
    ELSE IF e.exc = "JSONDecodeError"
    THEN Raise(<<"Failed", "to", "decode", "token", "payload", ":">> \o e.msg)
    ELSE IF Contains(e.msg, <<"Invalid", "token", "format">>)
    THEN Raise(e.msg)
    ELSE Raise(<<"Token", "decode", "error", ":">> \o e.msg)

\* a variant that decodes the third part instead of the second
DecodeBodyThirdPart(token) ==
    LET parts == SplitOn(token, ".")
    IN  IF Len(parts) # 3
        THEN [res |-> Raise(<<"Invalid", "token", "format", ":", "expected", "3",
                              "parts", ",", "got", ToString(Len(parts))>>),
              reached |-> FALSE, padded |-> <<>>, bytes |-> <<>>]
        ELSE LET payload_b64 == AddPadding(parts[3])
                 decoded == urlsafe_b64decode(payload_b64)
             IN  IF ~decoded.ok
                 THEN [res |-> decoded, reached |-> FALSE,
                       padded |-> payload_b64, bytes |-> <<>>]
                 ELSE [res |-> json_loads(decoded.val), reached |-> TRUE,
                       padded |-> payload_b64, bytes |-> decoded.val]

\* the body of the try block: [res, reached, padded, bytes]
DecodeBody(token) ==
    LET parts == SplitOn(token, ".")
    IN  IF Len(parts) # 3
        THEN [res |-> Raise(<<"Invalid", "token", "format", ":", "expected", "3",
                              "parts", ",", "got", ToString(Len(parts))>>),
              reached |-> FALSE, padded |-> <<>>, bytes |-> <<>>]
        ELSE LET payload_b64 == AddPadding(parts[2])
                 decoded == urlsafe_b64decode(payload_b64)
             IN  IF ~decoded.ok
                 THEN [res |-> decoded, reached |-> FALSE,
                       padded |-> payload_b64, bytes |-> <<>>]
                 ELSE [res |-> json_loads(decoded.val), reached |-> TRUE,
                       padded |-> payload_b64, bytes |-> decoded.val]

decode_token_payload(token) == DecodeHandlers(DecodeBody(token).res)

(***************************************************************************)
(* read_private_key_file                                                   *)
(***************************************************************************)
HexDigits ==
    {"0","1","2","3","4","5","6","7","8","9",
     "a","b","c","d","e","f","A","B","C","D","E","F"}

\* the digit part of an int() literal: digits, single underscores between
DigitsOk(d) ==
    /\ Len(d) >= 1
    /\ \A i \in 1..Len(d) : d[i] \in HexDigits \/ d[i] = "_"
    /\ d[1] # "_"
    /\ d[Len(d)] # "_"
    /\ \A i \in 1..(Len(d) - 1) : ~(d[i] = "_" /\ d[i + 1] = "_")

\* line 169: whether int(key, 16) accepts key (Python's integer literal
\* grammar: sign, 0x / 0X prefix, one underscore after the prefix)
IntBase16Accepts(key) ==
    LET t == Strip(key)
        unsigned == IF Len(t) >= 1 /\ t[1] \in {"+", "-"}
                    THEN SubSeq(t, 2, Len(t)) ELSE t
        prefixed == /\ Len(unsigned) >= 2
                    /\ unsigned[1] = "0"
                    /\ unsigned[2] \in {"x", "X"}
        body == IF prefixed THEN SubSeq(unsigned, 3, Len(unsigned)) ELSE unsigned
        digits == IF prefixed /\ Len(body) >= 1 /\ body[1] = "_"
                  THEN SubSeq(body, 2, Len(body)) ELSE body
    IN  DigitsOk(digits)

\* lines 164-170; file = [exists, content]
ReadKeyBody(file) ==
    IF ~file.exists
    THEN RaiseAs("FileNotFoundError", <<"No", "such", "file", "or", "directory">>)
    ELSE LET key == RemoveWhitespace(Strip(file.content))
         IN  IF Len(key) # KeyHexLen
             THEN RaiseAs("ValueError",
                          <<"Invalid", "private", "key", "length", ":",
                            ToString(Len(key)), "(expected 128)">>)
             ELSE IF ~IntBase16Accepts(key)
             THEN RaiseAs("ValueError",
                          <<"invalid", "literal", "for", "int()", "with",
                            "base", "16">>)
             ELSE Return(key)

\* lines 171-174
ReadKeyHandlers(e) ==
    IF e.ok THEN e
    ELSE IF e.exc = "FileNotFoundError"
    THEN Raise(<<"Private", "key", "file", "not", "found">>)
    ELSE IF e.exc = "ValueError"
    THEN Raise(<<"Invalid", "private", "key", "format", ":">> \o e.msg)
    ELSE e

read_private_key_file(file) == ReadKeyHandlers(ReadKeyBody(file))

(***************************************************************************)
(* The external tool.  A run of it is                                      *)
(*   [kind |-> "timeout"], [kind |-> "notfound"] or                        *)
(*   [kind |-> "exit", rc, out, err]                                       *)
(* and NotRun when the call never reached subprocess.run.                  *)
(***************************************************************************)
NotRun == [kind |-> "notrun"]

Timeout == [kind |-> "timeout"]

NotFound == [kind |-> "notfound"]

Exit(rc, out, err) == [kind |-> "exit", rc |-> rc, out |-> out, err |-> err]

\* subprocess.run raising instead of returning
RunRaises(proc) ==
    IF proc.kind = "timeout"
    THEN RaiseAs("TimeoutExpired", <<"timed", "out", "after", "10", "seconds">>)
    ELSE RaiseAs("FileNotFoundError", <<"No", "such", "file", "or", "directory">>)

CliNotFound ==
    <<"meshcore-decoder", "CLI", "not", "found", ".", "Please", "install">>

(***************************************************************************)
(* create_auth_token                                                       *)
(***************************************************************************)
\* json.dumps(claims): a value that is no JSON value is a TypeError.  The
\* JSON text is identified with the value it spells.
Serialisable(claims) == \A k \in DOMAIN claims : claims[k].t # "pyobject"

\* lines 33-53: [res, invoked, cmd]
CreateBody(public_key_hex, private_key_hex, expiry_seconds, claims, proc) ==
    LET cmd == [tool |-> "meshcore-decoder", sub |-> "auth-token",
                public_key |-> public_key_hex, private_key |-> private_key_hex,
                e |-> expiry_seconds,
                c |-> IF DOMAIN claims # {} THEN <<claims>> ELSE <<>>]
    IN  IF DOMAIN claims # {} /\ ~Serialisable(claims)
        THEN [res |-> RaiseAs("TypeError", <<"Object", "is", "not", "JSON",
                                             "serializable">>),
              invoked |-> FALSE, cmd |-> cmd]
        ELSE [invoked |-> TRUE, cmd |-> cmd, res |->
              IF proc.kind # "exit" THEN RunRaises(proc)
              ELSE IF proc.rc # 0
              THEN Raise(<<"meshcore-decoder", "error", ":">> \o proc.err)
              ELSE LET token == Strip(proc.out)
                   IN  IF token = <<>> \/ CountChar(token, ".") # 2
                       THEN Raise(<<"Invalid", "token", "format", ":">> \o token)
                       ELSE Return(token)]

\* lines 55-60
CreateHandlers(e) ==
    IF e.ok THEN e
    ELSE IF e.exc = "TimeoutExpired"
    THEN Raise(<<"Token", "generation", "timed", "out">>)
    ELSE IF e.exc = "FileNotFoundError"
    THEN Raise(CliNotFound)
    ELSE Raise(<<"Failed", "to", "generate", "auth", "token", ":">> \o e.msg)

create_auth_token(public_key_hex, private_key_hex, expiry_seconds, claims, proc) ==
    CreateHandlers(
        CreateBody(public_key_hex, private_key_hex, expiry_seconds, claims, proc).res)

(***************************************************************************)
(* verify_auth_token                                                       *)
(* The verifier's stdout is [form |-> "empty" | "blank" | "text"] or       *)
(* [form |-> "json", doc |-> v]: nothing, white space, text that is no     *)
(* JSON, or the JSON text of v.                                            *)
(***************************************************************************)
\* dict.get(key, default)
Get(o, k, default) == IF k \in DOMAIN o THEN o[k] ELSE default

\* str(v) inside an f-string
PyStr(v) ==
    CASE v.t = "str"  -> v.s
      [] v.t = "null" -> <<"None">>
      [] v.t = "bool" -> IF v.b THEN <<"True">> ELSE <<"False">>
      [] OTHER        -> <<"<value>">>

\* type(v).__name__, quoted as in an AttributeError
PyTypeName(v) ==
    CASE v.t = "list" -> "'list'"
      [] v.t = "num"  -> "'int'"
      [] v.t = "str"  -> "'str'"
      [] v.t = "bool" -> "'bool'"
      [] v.t = "null" -> "'NoneType'"
      [] OTHER        -> "'dict'"

\* str.lower(), word by word
LowerWord(w) ==
    CASE w = "Expired" -> "expired"
      [] w = "EXPIRED" -> "expired"
      [] w = "Token"   -> "token"
      [] OTHER         -> w

Lower(m) == [i \in 1..Len(m) |-> LowerWord(m[i])]

\* a variant without the expiry check of lines 107-108
CheckOutputNoExpiry(output) ==
    IF output.t # "obj"
    THEN RaiseAs("AttributeError",
                 <<PyTypeName(output), "object", "has", "no", "attribute", "'get'">>)
    ELSE IF ~Truthy(Get(output.o, "valid", JBool(FALSE)))
    THEN Raise(<<"Token", "verification", "failed", ":">>
               \o PyStr(Get(output.o, "error",
                            JStr(<<"Unknown", "verification", "error">>))))
    ELSE Return(Get(output.o, "payload", JObj(<<>>)))

\* a variant that looks at expired before valid
CheckOutputExpiryFirst(output) ==
    IF output.t # "obj"
    THEN RaiseAs("AttributeError",
                 <<PyTypeName(output), "object", "has", "no", "attribute", "'get'">>)
    ELSE IF Truthy(Get(output.o, "expired", JBool(FALSE)))
    THEN Raise(<<"Token", "has", "expired">>)
    ELSE IF ~Truthy(Get(output.o, "valid", JBool(FALSE)))
    THEN Raise(<<"Token", "verification", "failed", ":">>
               \o PyStr(Get(output.o, "error",
                            JStr(<<"Unknown", "verification", "error">>))))
    ELSE Return(Get(output.o, "payload", JObj(<<>>)))

\* lines 102-110, on the parsed output
CheckOutput(output) ==
    IF output.t # "obj"
    THEN RaiseAs("AttributeError",
                 <<PyTypeName(output), "object", "has", "no", "attribute", "'get'">>)
    ELSE IF ~Truthy(Get(output.o, "valid", JBool(FALSE)))
    THEN Raise(<<"Token", "verification", "failed", ":">>
               \o PyStr(Get(output.o, "error",
                            JStr(<<"Unknown", "verification", "error">>))))
    ELSE IF Truthy(Get(output.o, "expired", JBool(FALSE)))
    THEN Raise(<<"Token", "has", "expired">>)
    ELSE Return(Get(output.o, "payload", JObj(<<>>)))

\* lines 79-110
VerifyBody(token, expected_public_key_hex, proc) ==
    IF proc.kind # "exit" THEN RunRaises(proc)
    ELSE IF proc.rc # 0
    THEN Raise(<<"Token", "verification", "failed", ":">>
               \o (IF proc.err # <<>> THEN Strip(proc.err)
                   ELSE <<"Verification", "failed">>))
    ELSE IF proc.out.form \in {"empty", "blank"}
    THEN Raise(<<"Empty", "output", "from", "verification">>)
    ELSE IF proc.out.form = "text"
    THEN RaiseAs("JSONDecodeError", <<"Expecting", "value">>)
    ELSE CheckOutput(proc.out.doc)

\* lines 112-121
VerifyHandlers(e) ==
    IF e.ok THEN e
    ELSE IF e.exc = "TimeoutExpired"
    THEN Raise(<<"Token", "verification", "timed", "out">>)
    ELSE IF e.exc = "FileNotFoundError"
    THEN Raise(CliNotFound)
    ELSE IF e.exc = "JSONDecodeError"
    THEN Raise(<<"Failed", "to", "parse", "verification", "output", ":">> \o e.msg)
    ELSE IF \/ Contains(e.msg, <<"Token", "verification", "failed">>)
            \/ Contains(e.msg, <<"meshcore-decoder">>)
            \/ Contains(Lower(e.msg), <<"expired">>)
    THEN e
    ELSE Raise(<<"Token", "verification", "error", ":">> \o e.msg)

\* the command line of lines 79-82
VerifyCmd(token, expected_public_key_hex) ==
    [tool |-> "meshcore-decoder", sub |-> "verify-token", token |-> token,
     p |-> IF expected_public_key_hex # <<>>
           THEN <<expected_public_key_hex>> ELSE <<>>]

verify_auth_token(token, expected_public_key_hex, proc) ==
    VerifyHandlers(VerifyBody(token, expected_public_key_hex, proc))

(***************************************************************************)
(* __main__ (lines 176-200): argv = [prog, public_key, private_key_input]. *)
(* [res, file_read, invoked, cmd]; res.ok is exit status 0.                *)
(***************************************************************************)
NoCmd == [tool |-> "none"]

\* lines 185-193: the key __main__ signs with, or the error it exits on
MainLoadKey(private_key_input, file) ==
    IF Len(private_key_input) < KeyHexLen
    THEN read_private_key_file(file)
    ELSE Return(private_key_input)

\* lines 195-200, given the key
MainCreate(public_key, private_key, proc) ==
    LET body == CreateBody(public_key, private_key, DefaultExpiry, <<>>, proc)
        made == CreateHandlers(body.res)
    IN  [res |-> IF made.ok THEN made ELSE Raise(<<"Error", ":">> \o made.msg),
         invoked |-> body.invoked, cmd |-> body.cmd]

\* lines 178-180
MainUsage == [res |-> Raise(<<"Usage">>), invoked |-> FALSE, cmd |-> NoCmd]

\* lines 189-191
MainLoadFailed(loaded) ==
    [res |-> Raise(<<"Error", ":">> \o loaded.msg), invoked |-> FALSE,
     cmd |-> NoCmd]

(***************************************************************************)
(* Inputs                                                                  *)
(***************************************************************************)
Join3(h, p, s) == h \o <<".">> \o p \o <<".">> \o s

RawTokAlphabet == {".", "e", "3"}

PayloadAlphabet == {"e", "3", "0", "M", "Q"}

OuterParts == {<<>>, <<"e">>}

RawTokens == SeqsUpTo(RawTokAlphabet, MaxTokLen)

Payloads == SeqsUpTo(PayloadAlphabet, MaxPayloadLen)

DecodeTokens ==
    RawTokens \cup {Join3(h, p, s) : h \in OuterParts, p \in Payloads, s \in OuterParts}

\* '{', '}', '1', ' ', 0xFF
ByteAlphabet == {123, 125, 49, 32, 255}

DataSet == SeqsUpTo(ByteAlphabet, MaxBytes)

PubKey == Rep("c", 64)

\* the tokens given to verify_auth_token: two, four and three parts, empty parts
VerifyTokens ==
    { <<"a", ".", "b">>, <<"a", ".", "b", ".", "c", ".", "d">>, <<".", ".">>,
      <<"a", ".", ".", "c">>, <<"e", ".", "e", "3", "0", ".", "e">>, <<>> }

ExpectedKeys == {<<>>, PubKey}

Stderrs ==
    { <<>>, <<"\n">>, <<"Token", "expired">>, <<"Invalid", "signature">> }

Absent == [t |-> "absent"]

\* the JSON object with the members that are not Absent
MkObj(valid, expired, payload, error) ==
    LET full == [valid |-> valid, expired |-> expired,
                 payload |-> payload, error |-> error]
        keys == {k \in DOMAIN full : full[k].t # "absent"}
    IN  JObj([k \in keys |-> full[k]])

Flags == {Absent, JBool(TRUE), JBool(FALSE)}

Claims1 == [sub |-> JStr(<<"device-1">>)]

VerifierPayloads == {Absent, JNull, JObj(<<>>), JObj(Claims1)}

VerifierErrors ==
    {Absent, JStr(<<"Token", "expired">>), JStr(<<"Invalid", "signature">>)}

\* what the verifier may print: the documented {valid, expired, payload, error}
\* object with any of its members missing, JSON that is no object, and no JSON
VerifierStdouts ==
    {[form |-> "json", doc |-> MkObj(v, x, p, e)] :
        v \in Flags, x \in Flags, p \in VerifierPayloads, e \in VerifierErrors}
    \cup {[form |-> "json", doc |-> JList(<<>>)], [form |-> "json", doc |-> JNum(1)],
          [form |-> "empty"], [form |-> "blank"], [form |-> "text"]}

VerifierRuns ==
    {Timeout, NotFound}
    \cup {Exit(rc, out, err) : rc \in {0, 1}, out \in VerifierStdouts, err \in Stderrs}

\* what the signer may print: text over '.', 'a' with or without the final newline
SignerStdouts ==
    LET body == SeqsUpTo({".", "a"}, MaxOutLen)
    IN  body \cup {b \o <<"\n">> : b \in body}
        \cup { <<"a", ".", "a", ".", "a">>, <<"a", ".", "a", ".", "a", "\n">>,
               <<" ", "a", ".", "a", ".", "a">> }

SignerRuns ==
    {Timeout, NotFound}
    \cup {Exit(rc, out, err) : rc \in {0, 1}, out \in SignerStdouts,
                               err \in {<<>>, <<"Invalid", "key">>}}

\* claims given to create_auth_token as keyword arguments
ClaimSets ==
    { <<>>, Claims1, [exp |-> JNum(1), iat |-> JNum(2)],
      [cb |-> [t |-> "pyobject"]] }

\* key material: a run of hex digits of about KeyHexLen characters between a
\* prefix and a suffix that spell the signs, prefixes, separators and white
\* space int() and str.split() treat specially
KeyPrefixes ==
    { <<>>, <<"0", "x">>, <<"0", "X", "_">>, <<"+">>, <<"-">>, <<"F", "_">>,
      <<"_">>, <<"g">>, <<" ">>, <<"9", "\n">> }

KeySuffixes == { <<>>, <<"\n">>, <<"_">>, <<" ", "b">> }

KeyTexts ==
    {p \o Rep("a", n) \o s :
        p \in KeyPrefixes, s \in KeySuffixes,
        n \in (KeyHexLen - KeySlack - 2)..(KeyHexLen + KeySlack)}

Files == {[exists |-> FALSE, content |-> <<>>]}
         \cup {[exists |-> TRUE, content |-> c] : c \in KeyTexts}

NoFile == [exists |-> FALSE, content |-> <<>>]

\* private keys given to create_auth_token directly
CreateKeys == {Rep("b", KeyHexLen), Rep("b", KeyHexLen - 2), Rep("z", KeyHexLen)}

\* argv[2] and the content of a key file of __main__: a path, or key material
KeyPath == <<"k", "e", "y">>

MainKeyTexts ==
    {p \o Rep("a", n) : p \in KeyPrefixes, n \in (KeyHexLen - 2)..KeyHexLen}

MainInputs == {KeyPath} \cup MainKeyTexts

MainFiles == {NoFile} \cup {[exists |-> TRUE, content |-> c] : c \in MainKeyTexts}

None == [none |-> TRUE]

(***************************************************************************)
(* The state machine.  The module keeps no state between calls, so every   *)
(* call starts from the idle state and its outcome is the final state.     *)
(***************************************************************************)
Init ==
    /\ op = "idle"
    /\ inp = None
    /\ env = None
    /\ loc = None
    /\ res = None

Base64urlEncodeThenDecode ==
    /\ op = "idle"
    /\ \E data \in DataSet, h \in OuterParts, s \in OuterParts :
        LET padded == B64EncodePadded(data)
            enc == base64url_encode(data)
            token == Join3(h, enc, s)
            body == DecodeBody(token)
        IN  /\ op' = "roundtrip"
            /\ inp' = [data |-> data, token |-> token]
            /\ env' = None
            /\ loc' = [encoded |-> enc, stripped |-> Len(padded) - Len(enc),
                       added |-> Len(body.padded) - Len(enc),
                       padded |-> body.padded, reached |-> body.reached,
                       bytes |-> body.bytes]
            /\ res' = decode_token_payload(token)

DecodeTokenPayload ==
    /\ op = "idle"
    /\ \E token \in DecodeTokens :
        LET body == DecodeBody(token)
        IN  /\ op' = "decode"
            /\ inp' = [token |-> token]
            /\ env' = None
            /\ loc' = [padded |-> body.padded, reached |-> body.reached,
                       bytes |-> body.bytes]
            /\ res' = decode_token_payload(token)

ReadPrivateKeyFile ==
    /\ op = "idle"
    /\ \E file \in Files :
        /\ op' = "readkey"
        /\ inp' = [filepath |-> KeyPath]
        /\ env' = [file |-> file]
        /\ loc' = None
        /\ res' = read_private_key_file(file)

\* the signer answers only when the call reaches subprocess.run
CreateAuthToken ==
    /\ op = "idle"
    /\ \E private_key_hex \in CreateKeys, expiry_seconds \in {DefaultExpiry, -1},
          claims \in ClaimSets :
        \E proc \in IF CreateBody(PubKey, private_key_hex, expiry_seconds,
                                  claims, NotRun).invoked
                    THEN SignerRuns ELSE {NotRun} :
            LET body == CreateBody(PubKey, private_key_hex, expiry_seconds,
                                   claims, proc)
            IN  /\ op' = "create"
                /\ inp' = [public_key_hex |-> PubKey,
                           private_key_hex |-> private_key_hex,
                           expiry_seconds |-> expiry_seconds, claims |-> claims]
                /\ env' = [proc |-> proc]
                /\ loc' = [invoked |-> body.invoked, cmd |-> body.cmd]
                /\ res' = create_auth_token(PubKey, private_key_hex,
                                            expiry_seconds, claims, proc)

VerifyAuthToken ==
    /\ op = "idle"
    /\ \E token \in VerifyTokens, expected \in ExpectedKeys, proc \in VerifierRuns :
        /\ op' = "verify"
        /\ inp' = [token |-> token, expected_public_key_hex |-> expected]
        /\ env' = [proc |-> proc]
        /\ loc' = [cmd |-> VerifyCmd(token, expected)]
        /\ res' = verify_auth_token(token, expected, proc)

\* The file system holds at most one file, at KeyPath.  The file is read only
\* for an argument shorter than KeyHexLen, and the signer answers only when a
\* key was obtained.
Main ==
    /\ op = "idle"
    /\ \/ /\ op' = "main"
          /\ inp' = [argc |-> 2, private_key_input |-> <<>>]
          /\ env' = [file |-> NoFile, proc |-> NotRun]
          /\ loc' = [file_read |-> FALSE, invoked |-> FALSE, cmd |-> NoCmd]
          /\ res' = MainUsage.res
       \/ \E private_key_input \in MainInputs :
            \E file \in IF private_key_input = KeyPath
                        THEN MainFiles ELSE {NoFile} :
              LET loaded == MainLoadKey(private_key_input, file)
                  from_file == Len(private_key_input) < KeyHexLen
              IN  /\ op' = "main"
                  /\ inp' = [argc |-> 3, private_key_input |-> private_key_input]
                  /\ IF ~loaded.ok
                     THEN /\ env' = [file |-> file, proc |-> NotRun]
                          /\ loc' = [file_read |-> from_file, invoked |-> FALSE,
                                     cmd |-> NoCmd]
                          /\ res' = MainLoadFailed(loaded).res
                     ELSE \E proc \in SignerRuns :
                            LET m == MainCreate(PubKey, loaded.val, proc)
                            IN  /\ env' = [file |-> file, proc |-> proc]
                                /\ loc' = [file_read |-> from_file,
                                           invoked |-> m.invoked, cmd |-> m.cmd]
                                /\ res' = m.res

Next ==
    \/ Base64urlEncodeThenDecode
    \/ DecodeTokenPayload
    \/ ReadPrivateKeyFile
    \/ CreateAuthToken
    \/ VerifyAuthToken
    \/ Main

Spec == Init /\ [][Next]_vars

(***************************************************************************)
(* Vocabulary of the properties                                            *)
(***************************************************************************)
\* the error kind a raised message stands for
ErrorKind(r) ==
    IF r.ok THEN "none"
    ELSE IF r.msg = <<"Token", "has", "expired">> THEN "TokenExpired"
    ELSE IF StartsWith(r.msg, <<"Token", "verification", "failed">>)
    THEN "InvalidSignature"
    ELSE IF StartsWith(r.msg, <<"Invalid", "token", "format">>)
    THEN "MalformedToken"
    ELSE IF \/ StartsWith(r.msg, <<"Failed", "to", "decode", "token", "payload">>)
            \/ StartsWith(r.msg, <<"Token", "decode", "error">>)
    THEN "DecodeError"
    ELSE IF StartsWith(r.msg, <<"Private", "key", "file", "not", "found">>)
    THEN "KeyFileNotFound"
    ELSE IF StartsWith(r.msg, <<"Invalid", "private", "key", "format">>)
    THEN "InvalidKeyFormat"
    ELSE "Other"

ThreeNonEmptyParts(t) ==
    LET parts == SplitOn(t, ".")
    IN  Len(parts) = 3 /\ \A i \in 1..3 : parts[i] # <<>>

IsHexKey(k) == Len(k) = KeyHexLen /\ \A i \in 1..Len(k) : k[i] \in HexDigits

\* the verifier ran to exit code 0 and printed a JSON object
Answered(proc) ==
    /\ proc.kind = "exit"
    /\ proc.rc = 0
    /\ proc.out.form = "json"
    /\ proc.out.doc.t = "obj"

Says(proc, k, b) ==
    /\ Answered(proc)
    /\ k \in DOMAIN proc.out.doc.o
    /\ proc.out.doc.o[k] = JBool(b)

\* the verifier reported the signature check as passed
SignaturePassed(proc) == Says(proc, "valid", TRUE)

\* the verifier flagged the token as expired
FlaggedExpired(proc) == Says(proc, "expired", TRUE)

\* the ways the verifier can report that a well-signed token is past its
\* expiry: the expired flag, an error text, or a failing exit with the text
ReportsExpiry(proc) ==
    \/ SignaturePassed(proc) /\ FlaggedExpired(proc)
    \/ /\ Answered(proc)
       /\ "error" \in DOMAIN proc.out.doc.o
       /\ proc.out.doc.o["error"] = JStr(<<"Token", "expired">>)
       /\ ~SignaturePassed(proc)
    \/ /\ proc.kind = "exit"
       /\ proc.rc # 0
       /\ proc.err = <<"Token", "expired">>

(***************************************************************************)
(* C1: verify_auth_token returns claims only if the verifier reported the  *)
(* signature valid and did not flag the token expired; for every other     *)
(* outcome of the verifier (timeout, missing executable, non-zero exit,    *)
(* empty or unparseable output) it raises.  What it returns is the         *)
(* reported payload.                                                       *)
(***************************************************************************)
C1_ClaimsOnlyWhenValidAndFresh ==
    op = "verify" =>
        /\ res.ok <=> (SignaturePassed(env.proc) /\ ~FlaggedExpired(env.proc))
        /\ res.ok => res.val = Get(env.proc.out.doc.o, "payload", JObj(<<>>))

C1_Witness ==
    /\ op = "verify"
    /\ res.ok
    /\ res.val = JObj(Claims1)
    /\ inp.expected_public_key_hex = PubKey

(***************************************************************************)
(* C2: a well-signed token past its expiry always fails with the           *)
(* TokenExpired kind ("Token has expired"), whatever way the verifier      *)
(* reports the expiry.                                                     *)
(***************************************************************************)
C2_ExpiredAlwaysTokenExpired ==
    (op = "verify" /\ ReportsExpiry(env.proc)) =>
        (~res.ok /\ ErrorKind(res) = "TokenExpired")

(***************************************************************************)
(* C3: the expiry check comes after the signature check: TokenExpired is   *)
(* raised only when the signature was reported valid, and an answer that   *)
(* is both not valid and expired fails as an invalid signature.            *)
(***************************************************************************)
C3_ExpiryOnlyAfterSignature ==
    op = "verify" =>
        /\ ErrorKind(res) = "TokenExpired" => SignaturePassed(env.proc)
        /\ (Answered(env.proc) /\ ~SignaturePassed(env.proc)
                /\ FlaggedExpired(env.proc))
            => ErrorKind(res) = "InvalidSignature"

C3_Witness ==
    /\ op = "verify"
    /\ Says(env.proc, "valid", FALSE)
    /\ FlaggedExpired(env.proc)
    /\ ErrorKind(res) = "InvalidSignature"

(***************************************************************************)
(* C4: verify_auth_token fails with MalformedToken for every token that    *)
(* is not three non-empty parts separated by '.'.                          *)
(***************************************************************************)
C4_MalformedTokenRejected ==
    (op = "verify" /\ ~ThreeNonEmptyParts(inp.token)) =>
        (~res.ok /\ ErrorKind(res) \in {"MalformedToken", "DecodeError"})

(***************************************************************************)
(* C5: decode_token_payload depends only on the second part of a           *)
(* three-part token: any other header and signature around the same        *)
(* payload give the same outcome; it never fails as InvalidSignature or    *)
(* TokenExpired; and it fails with "Invalid token format" exactly when the *)
(* token does not split into three parts.  (It takes no clock.)            *)
(***************************************************************************)
VariantParts == OuterParts \cup { <<"Q", "w", "_">> }

C5_DecodeDependsOnPayloadOnly ==
    op = "decode" =>
        LET parts == SplitOn(inp.token, ".")
        IN  /\ ErrorKind(res) \notin {"InvalidSignature", "TokenExpired"}
            /\ ErrorKind(res) = "MalformedToken" <=> Len(parts) # 3
            /\ Len(parts) = 3 =>
                \A h \in VariantParts, s \in VariantParts :
                    decode_token_payload(Join3(h, parts[2], s)) = res

C5_Witness ==
    /\ op = "decode"
    /\ res.ok
    /\ res.val = JObj(<<>>)
    /\ Len(SplitOn(inp.token, ".")) = 3
    /\ SplitOn(inp.token, ".")[3] = <<>>

(***************************************************************************)
(* C6: read_private_key_file returns a key iff the file exists and its     *)
(* content without white space is exactly 128 hex digits; a missing file   *)
(* is KeyFileNotFound, any other content InvalidKeyFormat; the returned    *)
(* key is 128 hex digits.                                                  *)
(***************************************************************************)
C6_KeyAcceptedIffHex ==
    op = "readkey" =>
        LET good == /\ env.file.exists
                    /\ IsHexKey(RemoveWhitespace(env.file.content))
        IN  /\ res.ok <=> good
            /\ res.ok => IsHexKey(res.val)
            /\ ~env.file.exists => ErrorKind(res) = "KeyFileNotFound"
            /\ (env.file.exists /\ ~good) => ErrorKind(res) = "InvalidKeyFormat"

(***************************************************************************)
(* C8: create_auth_token either raises or returns exactly three non-empty  *)
(* parts separated by '.'.                                                 *)
(***************************************************************************)
C8_CreateAllOrNothing ==
    (op = "create" /\ res.ok) => ThreeNonEmptyParts(res.val)

(***************************************************************************)
(* C9: a private key that is not 128 hex digits never reaches the signer,  *)
(* whether it came from a file or from the command line.                   *)
(***************************************************************************)
C9_KeyValidatedBeforeSigning ==
    (op \in {"main", "create"} /\ loc.invoked) => IsHexKey(loc.cmd.private_key)

=============================================================================
